---- MODULE Spec2Model ----
(***************************************************************************)
(* Guidance toolkit and intersection helpers of osrm-backend:              *)
(*   include/engine/guidance/toolkit.hpp                                   *)
(*     angleToDirectionModifier, forEachRoundabout, numLanesToTheRight,    *)
(*     numLanesToTheLeft, lanesToTheLeft, lanesToTheRight                  *)
(*   include/extractor/guidance/intersection.hpp                           *)
(*     intersection_helpers::findClosestTurn,                              *)
(*     intersection_helpers::getHighestConnectedLaneCount,                 *)
(*     IntersectionView::valid, Intersection::findClosestTurn              *)
(*                                                                         *)
(* Iterators into a sequence s are modelled as positions 1..Len(s)+1, the  *)
(* position Len(s)+1 being the past-the-end iterator (last, end(), cend()).*)
(* Each function has its own specification; the variables of the other     *)
(* functions are parked at Idle and never change under it.                 *)
(***************************************************************************)
EXTENDS Integers, Sequences, FiniteSets

VARIABLES
    \* forEachRoundabout
    steps,        \* the RouteStep range [first, last) as handed in
    first,        \* the cursor `first`
    enter,        \* const auto enter
    leave,        \* const auto leave
    calls,        \* the state fn has accumulated: the pairs it was called with
    pc,           \* position in forEachRoundabout
    ret,          \* the returned fn (read once pc is "done")
    \* findClosestTurn
    intersection, \* the container of roads
    angle,        \* the target angle
    filter,       \* the UnaryPredicate
    closest,      \* the iterator intersection_helpers::findClosestTurn returned
    closest_turn, \* the iterator Intersection::findClosestTurn returned
    \* lane helpers
    lane_description_size,      \* step.intersections.front().lane_description.size()
    lanes_in_turn,              \* step.intersections.front().lanes.lanes_in_turn
    first_lane_from_the_right,  \* step.intersections.front().lanes.first_lane_from_the_right
    num_right,    \* result of numLanesToTheRight
    num_left,     \* result of numLanesToTheLeft
    range_left,   \* result of lanesToTheLeft
    range_right,  \* result of lanesToTheRight
    \* angleToDirectionModifier
    bearing,      \* the argument, in units of 1/AngleScale degree
    modifier,     \* the returned DirectionModifier
    \* getHighestConnectedLaneCount
    roads,        \* the intersection handed in
    graph,        \* node_based_graph: edge id -> number of lanes
    highest       \* the returned lane count

roundaboutVars == <<steps, first, enter, leave, calls, pc, ret>>
closestVars    == <<intersection, angle, filter, closest, closest_turn>>
laneVars       == <<lane_description_size, lanes_in_turn, first_lane_from_the_right,
                    num_right, num_left, range_left, range_right>>
modifierVars   == <<bearing, modifier>>
laneCountVars  == <<roads, graph, highest>>
vars == <<roundaboutVars, closestVars, laneVars, modifierVars, laneCountVars>>

\* The value of a variable under the specification of another function.
Idle == "idle"

roundaboutIdle == /\ steps = Idle /\ first = Idle /\ enter = Idle /\ leave = Idle
                  /\ calls = Idle /\ pc = Idle /\ ret = Idle
closestIdle    == /\ intersection = Idle /\ angle = Idle /\ filter = Idle /\ closest = Idle
                  /\ closest_turn = Idle
laneIdle       == /\ lane_description_size = Idle /\ lanes_in_turn = Idle
                  /\ first_lane_from_the_right = Idle /\ num_right = Idle
                  /\ num_left = Idle /\ range_left = Idle /\ range_right = Idle
modifierIdle   == /\ bearing = Idle /\ modifier = Idle
laneCountIdle  == /\ roads = Idle /\ graph = Idle /\ highest = Idle

Min(S) == CHOOSE x \in S : \A y \in S : x <= y
Max(S) == CHOOSE x \in S : \A y \in S : x >= y

SeqsUpTo(S, n) == UNION {[1..k -> S] : k \in 0..n}

\* The result of a function that has not been called yet, and of one that has.
None == <<>>
Some(x) == <<x>>
Get(o) == o[1]

(***************************************************************************)
(*                          forEachRoundabout                              *)
(***************************************************************************)

\* Longest step sequence handed to forEachRoundabout.
MaxSteps == 6

\* A RouteStep, reduced to what forEachRoundabout reads of it: the answers of
\* entersRoundabout and leavesRoundabout on step.maneuver.instruction.  One
\* instruction can answer true to both (enter and exit in one maneuver).
RouteStep == [enters : BOOLEAN, leaves : BOOLEAN]

entersRoundabout(step) == step.enters
leavesRoundabout(step) == step.leaves

last == Len(steps) + 1

\* enter and leave before the first iteration has declared them.
NoPosition == 0

\* std::find_if(from, last, entersRoundabout): the first position at or after
\* `from` whose step enters a roundabout, or last.
RECURSIVE FindEnter(_, _)
FindEnter(s, from) ==
    IF from = Len(s) + 1 THEN from
    ELSE IF entersRoundabout(s[from]) THEN from
    ELSE FindEnter(s, from + 1)

\* std::find_if(from, last, leavesRoundabout)
RECURSIVE FindLeave(_, _)
FindLeave(s, from) ==
    IF from = Len(s) + 1 THEN from
    ELSE IF leavesRoundabout(s[from]) THEN from
    ELSE FindLeave(s, from + 1)

\* Mutant: the search for the leave step starts one step after enter.
LeaveSearchStartSkipsEnter(e) == IF e = last THEN e ELSE e + 1
\* Mutant: the search for the leave step starts again from the cursor.
LeaveSearchStartsAtCursor(e) == first
\* The position the search for leave starts from: enter itself.
LeaveSearchStart(e) == e

\* Mutant: the cursor is left on the leave step instead of the step after it.
ResumeStaysOnLeave(l) == l
\* std::next(leave)
Resume(l) == l + 1

\* forEachRoundabout touches nothing of the other functions.
RoundaboutFrame == UNCHANGED <<closestVars, laneVars, modifierVars, laneCountVars>>

InitRoundabout ==
    /\ steps \in SeqsUpTo(RouteStep, MaxSteps)
    /\ first = 1
    /\ enter = NoPosition
    /\ leave = NoPosition
    /\ calls = <<>>
    /\ pc = "while"
    /\ ret = <<>>
    /\ closestIdle /\ laneIdle /\ modifierIdle /\ laneCountIdle

\* while (first != last) is false: fall out of the loop.
LoopExit ==
    /\ pc = "while"
    /\ first = last
    /\ pc' = "return"
    /\ UNCHANGED <<steps, first, enter, leave, calls, ret>>
    /\ RoundaboutFrame

\* while (first != last) is true: the two find_if calls.
FindPair ==
    /\ pc = "while"
    /\ first # last
    /\ enter' = FindEnter(steps, first)
    /\ leave' = FindLeave(steps, LeaveSearchStart(enter'))
    /\ pc' = "check"
    /\ UNCHANGED <<steps, first, calls, ret>>
    /\ RoundaboutFrame

\* Mutant: on a fragment the scan carries on after the fragment's first step.
BreakCarriesOn ==
    /\ pc = "check"
    /\ (enter = last \/ leave = last)
    /\ first' = first + 1
    /\ pc' = "while"
    /\ UNCHANGED <<steps, enter, leave, calls, ret>>
    /\ RoundaboutFrame

\* if (enter == last || leave == last) break;
Break ==
    /\ pc = "check"
    /\ (enter = last \/ leave = last)
    /\ pc' = "return"
    /\ UNCHANGED <<steps, first, enter, leave, calls, ret>>
    /\ RoundaboutFrame

\* (void)fn(std::make_pair(enter, leave)); first = std::next(leave);
CallFn ==
    /\ pc = "check"
    /\ ~(enter = last \/ leave = last)
    /\ calls' = Append(calls, <<enter, leave>>)
    /\ first' = Resume(leave)
    /\ pc' = "while"
    /\ UNCHANGED <<steps, enter, leave, ret>>
    /\ RoundaboutFrame

\* return fn;
Return ==
    /\ pc = "return"
    /\ ret' = calls
    /\ pc' = "done"
    /\ UNCHANGED <<steps, first, enter, leave, calls>>
    /\ RoundaboutFrame

NextRoundabout == LoopExit \/ FindPair \/ Break \/ CallFn \/ Return

SpecRoundabout == InitRoundabout /\ [][NextRoundabout]_vars

\* The loop is straight-line sequential code: a step that can be taken is taken.
FairSpecRoundabout == SpecRoundabout /\ WF_vars(NextRoundabout)

(***************************************************************************)
(*                    Claims about forEachRoundabout                       *)
(***************************************************************************)

IsPrefix(a, b) == Len(a) <= Len(b) /\ a = SubSeq(b, 1, Len(a))

\* Greedy left-to-right pairing, stated over sets of positions: from cursor c,
\* the least entering position e >= c, then the least leaving position l >= e,
\* the pair <<e, l>>, and on from l + 1; nothing when either does not exist.
RECURSIVE GreedyPairs(_, _)
GreedyPairs(s, c) ==
    LET E == {i \in c..Len(s) : s[i].enters}
    IN  IF E = {} THEN <<>>
        ELSE LET e == Min(E)
                 L == {j \in e..Len(s) : s[j].leaves}
             IN  IF L = {} THEN <<>>
                 ELSE <<<<e, Min(L)>>>> \o GreedyPairs(s, Min(L) + 1)

Other    == [enters |-> FALSE, leaves |-> FALSE]
Entering == [enters |-> TRUE,  leaves |-> FALSE]
Leaving  == [enters |-> FALSE, leaves |-> TRUE]

OneRoundabout  == <<Other, Entering, Other, Leaving, Other>>
NoLeave        == <<Other, Entering, Other>>
TwoRoundabouts == <<Other, Entering, Leaving, Entering, Leaving, Other>>

\* C1: fn is called exactly once for each pair of the greedy left-to-right
\* pairing, in that order, and for nothing else: at every moment the calls made
\* so far are a prefix of the greedy pairs, and once the loop is left they are
\* all of them, which is also what the returned fn holds.  [A, enter, inside,
\* leave, B] gives the one call (2, 4), [A, enter, B] none, and [A, enter1,
\* leave1, enter2, leave2, B] the calls (2, 3) then (4, 5).
C1_GreedyPairing ==
    /\ IsPrefix(calls, GreedyPairs(steps, 1))
    /\ pc \in {"return", "done"} => calls = GreedyPairs(steps, 1)
    /\ pc = "done" => ret = GreedyPairs(steps, 1)
    /\ (pc = "done" /\ steps = OneRoundabout) => ret = << <<2, 4>> >>
    /\ (pc = "done" /\ steps = NoLeave) => ret = <<>>
    /\ (pc = "done" /\ steps = TwoRoundabouts) => ret = << <<2, 3>>, <<4, 5>> >>

\* The run over [A, enter1, leave1, enter2, leave2, B] has returned, after two calls.
C1_Witness ==
    /\ pc = "done"
    /\ steps = TwoRoundabouts
    /\ Len(ret) = 2

\* C2: the ranges handed to fn never overlap and come in forward order: within
\* each call enter is not after leave, and each call's enter is strictly after
\* the previous call's leave.
C2_RangesDisjointForward ==
    \A i \in 1..Len(calls) :
        /\ calls[i][1] <= calls[i][2]
        /\ i > 1 => calls[i][1] > calls[i - 1][2]

\* Two calls were made, the second right after a one-step roundabout.
C2_Witness ==
    /\ Len(calls) >= 2
    /\ calls[1][1] = calls[1][2]
    /\ calls[2][1] = calls[1][2] + 1

\* A leaving step at k that comes before the first entering step.
LeaveBeforeFirstEnter(k) ==
    /\ steps[k].leaves
    /\ \A j \in 1..k : ~steps[j].enters

\* C3: when the search finds no entering step, or an entering step with no
\* leaving step at or after it, the scan stops at once: the next step leaves
\* the loop without a call, no call follows, and the function then returns the
\* fn it was threading.  A leaving step before the first entering step is in no
\* range handed to fn.
C3_FragmentStopsScan ==
    /\ [][(pc = "check" /\ (enter = last \/ leave = last))
            => (pc' = "return" /\ calls' = calls)]_vars
    /\ [][pc = "return" => (pc' = "done" /\ calls' = calls /\ ret' = calls)]_vars
    /\ [][pc = "done" => UNCHANGED <<pc, calls, ret>>]_vars
    /\ [](pc = "done" => ret = calls)
    /\ [](\A k \in 1..Len(steps) : LeaveBeforeFirstEnter(k) =>
            \A i \in 1..Len(calls) : ~(calls[i][1] <= k /\ k <= calls[i][2]))

\* The function has returned after a complete roundabout followed by an enter
\* without a leave, on a sequence that starts with a stray leave.
C3_Witness ==
    /\ pc = "done"
    /\ enter < last
    /\ leave = last
    /\ Len(ret) = 1
    /\ LeaveBeforeFirstEnter(1)

\* No entering step at or after the cursor has a leaving step at or after it.
NoCompletePairFrom(c) ==
    \A e \in c..Len(steps) : steps[e].enters =>
        \A l \in e..Len(steps) : ~steps[l].leaves

\* C10: the function terminates on every finite step sequence; each iteration
\* either breaks (cursor untouched) or moves the cursor strictly forward; fn is
\* called at most as often as there are steps; and once the loop is left, no
\* complete enter/leave pair remains at or after the cursor.
C10_TerminatesWithoutDroppingPairs ==
    /\ <>(pc = "done")
    /\ [][pc = "check" => \/ (pc' = "return" /\ first' = first)
                          \/ (pc' = "while" /\ first' > first)]_vars
    /\ [](Len(calls) <= Len(steps))
    /\ [](first \in 1..last)
    /\ [](pc \in {"return", "done"} => NoCompletePairFrom(first))

\* The function has returned by break with steps left after the cursor.
C10_Witness ==
    /\ pc = "done"
    /\ first < last
    /\ Len(calls) >= 1
    /\ \E e \in first..Len(steps) : steps[e].enters

(***************************************************************************)
(*                            findClosestTurn                              *)
(***************************************************************************)

\* Most roads of an intersection.
MaxRoads == 3

\* Turn angles in [0, 360) the roads and the target are drawn from: the straight
\* direction and its neighbours, both sides, both ends of the range.
Angles == {0, 90, 170, 180, 190, 260, 270, 350}

\* A road of the intersection, reduced to the fields the search and the
\* filters read.
Road == [angle : Angles, entry_allowed : BOOLEAN]

\* The UnaryPredicate handed in by the caller: true for elements to remove.
Filters == {"keep_all", "drop_illegal", "drop_all"}
Filter(f, road) ==
    CASE f = "keep_all"     -> FALSE
      [] f = "drop_illegal" -> ~road.entry_allowed
      [] f = "drop_all"     -> TRUE

\* util::guidance::angularDeviation: std::min(360 - |angle - from|, |angle - from|)
angularDeviation(a, from) ==
    LET deviation == IF a >= from THEN a - from ELSE from - a
    IN  IF 360 - deviation < deviation THEN 360 - deviation ELSE deviation

\* IntersectionViewData::CompareByAngle
CompareByAngle(lhs, rhs) == lhs.angle < rhs.angle

\* valid(): std::is_sorted under CompareByAngle: no element compares less than
\* the one before it.
valid(s) == \A i \in 1..(Len(s) - 1) : ~CompareByAngle(s[i + 1], s[i])

\* Mutant: the comparison looks at the deviation alone.
CompareDeviationOnly(lhs, rhs, a, f) ==
    angularDeviation(lhs.angle, a) < angularDeviation(rhs.angle, a)
\* Mutant: equal keys compare as less, so that a later equal element wins.
CompareTurnsOrEqual(lhs, rhs, a, f) ==
    LET filtered_lhs == Filter(f, lhs)
        filtered_rhs == Filter(f, rhs)
        deviation_lhs == angularDeviation(lhs.angle, a)
        deviation_rhs == angularDeviation(rhs.angle, a)
    IN  \/ (~filtered_lhs /\ filtered_rhs)
        \/ (filtered_lhs = filtered_rhs /\ deviation_lhs <= deviation_rhs)
\* The comparison lambda: std::tie(filtered_lhs, deviation_lhs) <
\* std::tie(filtered_rhs, deviation_rhs), with false < true.
CompareTurns(lhs, rhs, a, f) ==
    LET filtered_lhs == Filter(f, lhs)
        filtered_rhs == Filter(f, rhs)
        deviation_lhs == angularDeviation(lhs.angle, a)
        deviation_rhs == angularDeviation(rhs.angle, a)
    IN  \/ (~filtered_lhs /\ filtered_rhs)
        \/ (filtered_lhs = filtered_rhs /\ deviation_lhs < deviation_rhs)

\* std::min_element's loop from position i with the smallest so far: a later
\* element replaces it only when it compares less.
RECURSIVE MinElementFrom(_, _, _, _, _)
MinElementFrom(s, i, smallest, a, f) ==
    IF i = Len(s) + 1 THEN smallest
    ELSE IF CompareTurns(s[i], s[smallest], a, f)
         THEN MinElementFrom(s, i + 1, i, a, f)
         ELSE MinElementFrom(s, i + 1, smallest, a, f)

\* std::min_element(intersection.begin(), intersection.end(), comp)
MinElement(s, a, f) ==
    IF Len(s) = 0 THEN Len(s) + 1 ELSE MinElementFrom(s, 2, 1, a, f)

\* Mutant: the candidate is returned without asking the filter again.
findClosestTurnUnchecked(s, a, f) == MinElement(s, a, f)
\* intersection_helpers::findClosestTurn; Len(s) + 1 is intersection.cend().
\* The candidate is dereferenced, so the container must not be empty.
findClosestTurn(s, a, f) ==
    LET candidate == MinElement(s, a, f)
    IN  IF Filter(f, s[candidate]) THEN Len(s) + 1 ELSE candidate

\* Intersection::findClosestTurn(angle): std::min_element by angularDeviation
\* alone, the first minimal element winning.
RECURSIVE ClosestByDeviationFrom(_, _, _, _)
ClosestByDeviationFrom(s, i, smallest, a) ==
    IF i = Len(s) + 1 THEN smallest
    ELSE IF angularDeviation(s[i].angle, a) < angularDeviation(s[smallest].angle, a)
         THEN ClosestByDeviationFrom(s, i + 1, i, a)
         ELSE ClosestByDeviationFrom(s, i + 1, smallest, a)

IntersectionFindClosestTurn(s, a) ==
    IF Len(s) = 0 THEN Len(s) + 1 ELSE ClosestByDeviationFrom(s, 2, 1, a)

ClosestFrame == UNCHANGED <<roundaboutVars, laneVars, modifierVars, laneCountVars>>

\* An intersection holds at least the road back (element 0) and is kept sorted
\* by angle.
InitClosestTurn ==
    /\ intersection \in {s \in SeqsUpTo(Road, MaxRoads) : Len(s) > 0 /\ valid(s)}
    /\ angle \in Angles
    /\ filter \in Filters
    /\ closest = NoPosition
    /\ closest_turn = NoPosition
    /\ roundaboutIdle /\ laneIdle /\ modifierIdle /\ laneCountIdle

\* intersection_helpers::findClosestTurn(intersection, angle, filter)
FindClosestTurn ==
    /\ closest = NoPosition
    /\ closest' = findClosestTurn(intersection, angle, filter)
    /\ UNCHANGED <<intersection, angle, filter, closest_turn>>
    /\ ClosestFrame

\* intersection.findClosestTurn(angle)
FindClosestTurnMember ==
    /\ closest_turn = NoPosition
    /\ closest_turn' = IntersectionFindClosestTurn(intersection, angle)
    /\ UNCHANGED <<intersection, angle, filter, closest>>
    /\ ClosestFrame

NextClosestTurn == FindClosestTurn \/ FindClosestTurnMember

SpecClosestTurn == InitClosestTurn /\ [][NextClosestTurn]_vars

(***************************************************************************)
(*                      Claims about findClosestTurn                       *)
(***************************************************************************)

cend == Len(intersection) + 1
Positions == 1..Len(intersection)
Excluded(i) == Filter(filter, intersection[i])
Deviation(i) == angularDeviation(intersection[i].angle, angle)
Kept == {i \in Positions : ~Excluded(i)}

\* (excluded, deviation) of i is lexicographically at most that of j.
KeyAtMost(i, j) ==
    \/ (~Excluded(i) /\ Excluded(j))
    \/ (Excluded(i) = Excluded(j) /\ Deviation(i) <= Deviation(j))

\* C4: when at least one element is not excluded, the helper returns an
\* element, that element is not excluded, its key (excluded, deviation) is
\* minimal over all elements, and so its deviation is minimal among the
\* elements that are not excluded, whatever the deviations of excluded ones.
C4_MinimalLexicographicKey ==
    (closest # NoPosition /\ Kept # {}) =>
        /\ closest \in Kept
        /\ \A j \in Positions : KeyAtMost(closest, j)
        /\ \A j \in Kept : Deviation(closest) <= Deviation(j)

\* The helper returned a kept element although an excluded one is strictly
\* closer to the target.
C4_Witness ==
    /\ closest \in Kept
    /\ \E j \in Positions : Excluded(j) /\ Deviation(j) < Deviation(closest)

\* C5: when every element is excluded the helper returns cend(), never an
\* element.
C5_AllExcludedNotFound ==
    (closest # NoPosition /\ Kept = {}) => (closest = cend /\ closest \notin Positions)

\* The helper returned cend() for three roads none of which may be entered,
\* asked to skip the roads that may not be entered.
C5_Witness ==
    /\ closest = cend
    /\ filter = "drop_illegal"
    /\ Len(intersection) = 3
    /\ \A i \in Positions : ~intersection[i].entry_allowed

MinDeviation == Min({Deviation(i) : i \in Positions})
FirstClosest == Min({i \in Positions : Deviation(i) = MinDeviation})
AnglesOf(s) == [i \in 1..Len(s) |-> s[i].angle]

\* C6: on a valid intersection the search without exclusion (the member
\* function, and the helper with a filter that removes nothing) returns the
\* element of minimal angular deviation over the whole intersection, the one
\* of lowest index when several share it; angles [0, 90, 260] and target 180
\* give the 260 element.
C6_ClosestWithoutExclusion ==
    /\ (closest_turn # NoPosition /\ valid(intersection)) =>
            closest_turn = FirstClosest
    /\ (closest # NoPosition /\ filter = "keep_all" /\ valid(intersection)) =>
            closest = FirstClosest
    /\ (closest_turn # NoPosition /\ AnglesOf(intersection) = <<0, 90, 260>> /\ angle = 180) =>
            intersection[closest_turn].angle = 260

\* Both searches returned the 90 element of [0, 90, 270] for target 180, where
\* the 270 element is as close.
C6_Witness ==
    /\ AnglesOf(intersection) = <<0, 90, 270>>
    /\ angle = 180
    /\ filter = "keep_all"
    /\ closest_turn = 2
    /\ closest = 2

(***************************************************************************)
(*                         Lane partition helpers                          *)
(***************************************************************************)

\* Lane counts up to MaxLanes are drawn, and those next to the end of LaneID.
MaxLanes == 4

\* LaneID is std::uint8_t: this many values.
LaneIDValues == 256

\* Conversion of an int to LaneID.
ToLaneID(x) == x % LaneIDValues

\* Values of the two LaneID fields, and sizes of lane_description, drawn.
LaneIDSample == {x \in 0..(LaneIDValues - 1) : x <= MaxLanes \/ x >= LaneIDValues - 3}
SizeSample == (0..MaxLanes) \cup ((LaneIDValues - 2)..(LaneIDValues + 2))

\* step.intersections.front(), reduced to what the helpers read.
laneStep == [lane_description_size |-> lane_description_size,
             lanes_in_turn |-> lanes_in_turn,
             first_lane_from_the_right |-> first_lane_from_the_right]

numLanesToTheRight(step) == step.first_lane_from_the_right

\* Mutant: the lanes to the right are not subtracted.
numLanesToTheLeftOfTurnOnly(step) ==
    LET total == ToLaneID(step.lane_description_size)
    IN  ToLaneID(total - step.lanes_in_turn)
\* LaneID const total = lane_description.size(); the subtraction is done in
\* int and converted to LaneID by the return.
numLanesToTheLeft(step) ==
    LET total == ToLaneID(step.lane_description_size)
    IN  ToLaneID(total - (step.lanes_in_turn + step.first_lane_from_the_right))

\* A sub-range of lane_description as <<offset of its begin, offset of its
\* end>> from description.begin(), the end offset excluded.
lanesToTheLeft(step) ==
    LET num_lanes_left == numLanesToTheLeft(step)
    IN  <<0, 0 + num_lanes_left>>

lanesToTheRight(step) ==
    LET num_lanes_right == numLanesToTheRight(step)
    IN  <<step.lane_description_size - num_lanes_right, step.lane_description_size>>

LaneFrame == UNCHANGED <<roundaboutVars, closestVars, modifierVars, laneCountVars>>

\* Lane data comes from the validated upstream stages: the lanes of the turn
\* and those right of it are lanes of the description.
InitLanes ==
    /\ lane_description_size \in SizeSample
    /\ lanes_in_turn \in LaneIDSample
    /\ first_lane_from_the_right \in LaneIDSample
    /\ lanes_in_turn + first_lane_from_the_right <= lane_description_size
    /\ num_right = None
    /\ num_left = None
    /\ range_left = None
    /\ range_right = None
    /\ roundaboutIdle /\ closestIdle /\ modifierIdle /\ laneCountIdle

NumLanesToTheRight ==
    /\ num_right = None
    /\ num_right' = Some(numLanesToTheRight(laneStep))
    /\ UNCHANGED <<lane_description_size, lanes_in_turn, first_lane_from_the_right,
                   num_left, range_left, range_right>>
    /\ LaneFrame

NumLanesToTheLeft ==
    /\ num_left = None
    /\ num_left' = Some(numLanesToTheLeft(laneStep))
    /\ UNCHANGED <<lane_description_size, lanes_in_turn, first_lane_from_the_right,
                   num_right, range_left, range_right>>
    /\ LaneFrame

LanesToTheLeft ==
    /\ range_left = None
    /\ range_left' = Some(lanesToTheLeft(laneStep))
    /\ UNCHANGED <<lane_description_size, lanes_in_turn, first_lane_from_the_right,
                   num_right, num_left, range_right>>
    /\ LaneFrame

LanesToTheRight ==
    /\ range_right = None
    /\ range_right' = Some(lanesToTheRight(laneStep))
    /\ UNCHANGED <<lane_description_size, lanes_in_turn, first_lane_from_the_right,
                   num_right, num_left, range_left>>
    /\ LaneFrame

NextLanes == NumLanesToTheRight \/ NumLanesToTheLeft \/ LanesToTheLeft \/ LanesToTheRight

SpecLanes == InitLanes /\ [][NextLanes]_vars

\* C7: for a well-formed lane description (lanes_in_turn +
\* first_lane_from_the_right does not exceed the number of entries),
\* numLanesToTheLeft + numLanesToTheRight + lanes_in_turn is the total lane
\* count in LaneID arithmetic (and exactly, when the count is a LaneID value);
\* numLanesToTheLeft is between 0 and the total; lanesToTheLeft is a prefix and
\* lanesToTheRight a suffix of the description, and the two do not overlap.
C7_LanePartition ==
    (lanes_in_turn + first_lane_from_the_right <= lane_description_size) =>
        /\ (num_left # None /\ num_right # None) =>
            /\ ToLaneID(Get(num_left) + Get(num_right) + lanes_in_turn)
                   = ToLaneID(lane_description_size)
            /\ lane_description_size < LaneIDValues =>
                   Get(num_left) + Get(num_right) + lanes_in_turn = lane_description_size
        /\ num_left # None =>
            (0 <= Get(num_left) /\ Get(num_left) <= lane_description_size)
        /\ range_left # None =>
            (Get(range_left)[1] = 0 /\ Get(range_left)[2] <= lane_description_size)
        /\ range_right # None =>
            (Get(range_right)[1] >= 0 /\ Get(range_right)[2] = lane_description_size)
        /\ (range_left # None /\ range_right # None) =>
            Get(range_left)[2] <= Get(range_right)[1]

\* All four helpers have answered for four lanes, one of them the turn's, with
\* one to its right and two to its left.
C7_Witness ==
    /\ lane_description_size = 4
    /\ lanes_in_turn = 1
    /\ first_lane_from_the_right = 1
    /\ num_left = Some(2)
    /\ num_right = Some(1)
    /\ range_left = Some(<<0, 2>>)
    /\ range_right = Some(<<3, 4>>)

(***************************************************************************)
(*                        angleToDirectionModifier                         *)
(***************************************************************************)

\* Angles are counted in units of 1/AngleScale degree.
AngleScale == 10

\* if (bearing < 135)
RightLimit == 135
\* if (bearing <= 225)
StraightLimit == 225

\* Mutant: the lower boundary value itself still maps to Right.
angleToDirectionModifierInclusive(b) ==
    IF b <= RightLimit * AngleScale THEN "Right"
    ELSE IF b <= StraightLimit * AngleScale THEN "Straight"
    ELSE "Left"
angleToDirectionModifier(b) ==
    IF b < RightLimit * AngleScale THEN "Right"
    ELSE IF b <= StraightLimit * AngleScale THEN "Straight"
    ELSE "Left"

ModifierFrame == UNCHANGED <<roundaboutVars, closestVars, laneVars, laneCountVars>>

InitModifier ==
    /\ bearing \in 0..(360 * AngleScale - 1)
    /\ modifier = None
    /\ roundaboutIdle /\ closestIdle /\ laneIdle /\ laneCountIdle

AngleToDirectionModifier ==
    /\ modifier = None
    /\ modifier' = Some(angleToDirectionModifier(bearing))
    /\ UNCHANGED bearing
    /\ ModifierFrame

NextModifier == AngleToDirectionModifier

SpecModifier == InitModifier /\ [][NextModifier]_vars

\* C8: every angle strictly below 135 degrees maps to Right, every angle from
\* 135 to 225 degrees inclusive to Straight, every angle strictly above 225
\* degrees to Left, and each angle gets exactly one of the three; the angle one
\* unit below 135 is Right and the one one unit above 225 is Left.
C8_ExactThresholds ==
    modifier # None =>
        /\ Get(modifier) \in {"Right", "Straight", "Left"}
        /\ Get(modifier) = "Right" <=> bearing < 135 * AngleScale
        /\ Get(modifier) = "Straight" <=>
               (135 * AngleScale <= bearing /\ bearing <= 225 * AngleScale)
        /\ Get(modifier) = "Left" <=> bearing > 225 * AngleScale
        /\ bearing = 135 * AngleScale - 1 => Get(modifier) = "Right"
        /\ bearing = 225 * AngleScale + 1 => Get(modifier) = "Left"

\* The function answered Straight for exactly 135 degrees.
C8_Witness ==
    /\ bearing = 135 * AngleScale
    /\ modifier = Some("Straight")

(***************************************************************************)
(*                     getHighestConnectedLaneCount                        *)
(***************************************************************************)

\* Most lanes the graph reports for an edge.
MaxLaneCount == 3

\* The edges of the graph that meet at the intersection.
EdgeIDs == 1..MaxRoads
LaneCounts == 0..MaxLaneCount

\* A road as the function reads it (eid), with the legality flag it ignores.
ConnectedRoad == [eid : EdgeIDs, entry_allowed : BOOLEAN]

\* node_based_graph.GetEdgeData(road.eid).road_classification.GetNumberOfLanes()
to_lane_count(g, road) == g[road.eid]

\* Mutant: roads that may not be entered are passed over.
extract_maximal_value_if_allowed(max_lanes, g, road) ==
    IF road.entry_allowed /\ to_lane_count(g, road) > max_lanes
    THEN to_lane_count(g, road) ELSE max_lanes
\* max_lanes = std::max(max_lanes, value) on the transformed element
extract_maximal_value(max_lanes, g, road) ==
    IF to_lane_count(g, road) > max_lanes THEN to_lane_count(g, road) ELSE max_lanes

\* boost::range::find_if over the transformed view with a predicate that
\* always answers false: every element is visited, in order.
RECURSIVE FindIfExtract(_, _, _, _)
FindIfExtract(s, i, max_lanes, g) ==
    IF i = Len(s) + 1 THEN max_lanes
    ELSE FindIfExtract(s, i + 1, extract_maximal_value(max_lanes, g, s[i]), g)

getHighestConnectedLaneCount(s, g) == FindIfExtract(s, 1, 0, g)

LaneCountFrame == UNCHANGED <<roundaboutVars, closestVars, laneVars, modifierVars>>

\* BOOST_ASSERT(!intersection.empty()); each road is another edge.
InitLaneCount ==
    /\ roads \in {s \in SeqsUpTo(ConnectedRoad, MaxRoads) :
                    /\ Len(s) > 0
                    /\ \A i, j \in 1..Len(s) : s[i].eid = s[j].eid => i = j}
    /\ graph \in [EdgeIDs -> LaneCounts]
    /\ highest = None
    /\ roundaboutIdle /\ closestIdle /\ laneIdle /\ modifierIdle

GetHighestConnectedLaneCount ==
    /\ highest = None
    /\ highest' = Some(getHighestConnectedLaneCount(roads, graph))
    /\ UNCHANGED <<roads, graph>>
    /\ LaneCountFrame

NextLaneCount == GetHighestConnectedLaneCount

SpecLaneCount == InitLaneCount /\ [][NextLaneCount]_vars

\* C9: for a non-empty intersection the function returns the maximum, over all
\* its roads, of the lane count the graph reports for the road's edge, whether
\* or not the roads may be entered; lane counts 1, 3, 2 give 3 even when no
\* road may be entered.
C9_MaximumOverAllRoads ==
    (highest # None /\ Len(roads) > 0) =>
        /\ Get(highest) = Max({graph[roads[i].eid] : i \in 1..Len(roads)})
        /\ (Len(roads) = 3 /\ [i \in 1..3 |-> graph[roads[i].eid]] = <<1, 3, 2>>) =>
               Get(highest) = 3

\* The function answered 3 for three roads with 1, 3 and 2 lanes none of which
\* may be entered.
C9_Witness ==
    /\ Len(roads) = 3
    /\ [i \in 1..3 |-> graph[roads[i].eid]] = <<1, 3, 2>>
    /\ \A i \in 1..3 : ~roads[i].entry_allowed
    /\ highest = Some(3)

====
